---- MODULE Spec2Model ----
(***************************************************************************)
(* A model of the configuration file loader of configuration.cpp /         *)
(* configuration.h: the line grammar, parseValue, loadConfig with its      *)
(* `use` includes, the command line scan of initConfig, the lazily built   *)
(* singleton of Configuration::get / refresh, and the typed getters with   *)
(* the `$NAME` expansion of getStringConfig.                               *)
(*                                                                         *)
(* Texts (lines, value texts, file names, variable names, type names) are  *)
(* sequences of one-character strings, so that the regular expressions and *)
(* the scanf formats of the source are computed character by character.    *)
(***************************************************************************)
EXTENDS Integers, Sequences, FiniteSets, TLC

\* ------------------------------------------------------------ characters

QUOTE == "\""
APOS == "'"
HASH == "#"
SPACE == " "
DOLLAR == "$"
SLASH == "/"

\* [A-Za-z] of the regular expressions (configuration.cpp:137, 326).
Letters ==
    {"A","B","C","D","E","F","G","H","I","J","K","L","M","N","O","P","Q","R",
     "S","T","U","V","W","X","Y","Z",
     "a","b","c","d","e","f","g","h","i","j","k","l","m","n","o","p","q","r",
     "s","t","u","v","w","x","y","z"}

DecDigits == {"0","1","2","3","4","5","6","7","8","9"}

\* [A-Za-z0-9_-] of the regular expressions.
IdentChars == Letters \cup DecDigits \cup {"_", "-"}

\* isspace of the C locale, as skipped by operator>> and by trim_left.
WhiteSpace == {" ", "\t", "\n", "\r"}

DigitTable ==
    ("0" :> 0) @@ ("1" :> 1) @@ ("2" :> 2) @@ ("3" :> 3) @@ ("4" :> 4) @@
    ("5" :> 5) @@ ("6" :> 6) @@ ("7" :> 7) @@ ("8" :> 8) @@ ("9" :> 9) @@
    ("a" :> 10) @@ ("b" :> 11) @@ ("c" :> 12) @@ ("d" :> 13) @@ ("e" :> 14) @@
    ("f" :> 15) @@ ("A" :> 10) @@ ("B" :> 11) @@ ("C" :> 12) @@ ("D" :> 13) @@
    ("E" :> 14) @@ ("F" :> 15)

\* Whether c is a digit of the base.
IsDigit(c, base) == c \in DOMAIN DigitTable /\ DigitTable[c] < base

\* The type names parseValue compares against (configuration.cpp:48-79).
T_int == <<"i","n","t">>
T_hex == <<"h","e","x">>
T_octal == <<"o","c","t","a","l">>
T_float == <<"f","l","o","a","t">>
T_bool == <<"b","o","o","l">>
T_boolean == <<"b","o","o","l","e","a","n">>
T_char == <<"c","h","a","r">>
T_string == <<"s","t","r","i","n","g">>

\* The two error codes parseValue returns in value.type.
T_invalidTypeName == <<"invalid type name">>
T_invalidSyntax == <<"invalid syntax">>

\* ------------------------------------------------------------ text helpers

\* s from index i to its end.
From(s, i) == SubSeq(s, i, Len(s))

\* The length of the longest prefix of s whose characters all satisfy: in set.
RECURSIVE RunIn(_, _)
RunIn(s, set) ==
    IF s # <<>> /\ Head(s) \in set THEN 1 + RunIn(Tail(s), set) ELSE 0

\* The length of the longest prefix of s with no character of set.
RECURSIVE RunNotIn(_, _)
RunNotIn(s, set) ==
    IF s # <<>> /\ Head(s) \notin set THEN 1 + RunNotIn(Tail(s), set) ELSE 0

\* The length of the longest prefix of s made of digits of the base.
RECURSIVE RunDigits(_, _)
RunDigits(s, base) ==
    IF s # <<>> /\ IsDigit(Head(s), base) THEN 1 + RunDigits(Tail(s), base) ELSE 0

\* The number a run of digits denotes in the base.
RECURSIVE DigitsValue(_, _)
DigitsValue(s, base) ==
    IF s = <<>> THEN 0
    ELSE DigitsValue(SubSeq(s, 1, Len(s) - 1), base) * base + DigitTable[s[Len(s)]]

\* ------------------------------------------------------------ parseValue

INT_MAX == 2147483647

\* configValue (configuration.h:85-101): the type name and the union.  A member
\* of the union that was not the one written is never read by the code (every
\* getter tests the type first); it is kept at a fixed filler here.
NoValue ==
    [type |-> <<>>, intVal |-> 0, floatVal |-> [mant |-> 0, exp |-> 0],
     boolVal |-> FALSE, charVal |-> "", stringVal |-> <<>>]

IntValue(v) == [NoValue EXCEPT !.type = <<"i","n","t">>, !.intVal = v]
FloatValue(v) == [NoValue EXCEPT !.type = <<"f","l","o","a","t">>, !.floatVal = v]
BoolValue(v) == [NoValue EXCEPT !.type = <<"b","o","o","l">>, !.boolVal = v]
CharValue(v) == [NoValue EXCEPT !.type = <<"c","h","a","r">>, !.charVal = v]
StringValue(v) ==
    [NoValue EXCEPT !.type = <<"s","t","r","i","n","g">>, !.stringVal = v]
ErrorValue(code) == [NoValue EXCEPT !.type = code]

\* s without the white space it starts with, as operator>> skips it.
SkipWhite(s) == From(s, RunIn(s, WhiteSpace) + 1)

\* s starts with the sign '-'.
Negative(s) == s # <<>> /\ Head(s) = "-"

\* s without the sign it starts with, if any.
SkipSign(s) == IF s # <<>> /\ Head(s) \in {"-", "+"} THEN Tail(s) ELSE s

\* magnitude with the sign.
Signed(neg, magnitude) == IF neg THEN 0 - magnitude ELSE magnitude

\* iss >> [hex|oct] >> value.intVal, then the check (!iss.eof() || iss.fail()):
\* leading white space skipped, an optional sign, for base 16 an optional 0x,
\* at least one digit, the whole text consumed, and the value an int.
\* Yields <<ok, value>>.
ExtractInt(text, base) ==
    LET Checked(consumed, v) ==
            IF consumed /\ v <= INT_MAX /\ v >= 0 - INT_MAX - 1
            THEN <<TRUE, v>>
            ELSE <<FALSE, 0>>
        Digits(neg, s2, n) ==
            Checked(n >= 1 /\ n = Len(s2),
                    Signed(neg, DigitsValue(SubSeq(s2, 1, n), base)))
        Prefixed(neg, s2) == Digits(neg, s2, RunDigits(s2, base))
        Unsigned(neg, s1) ==
            Prefixed(neg,
                     IF base = 16 /\ Len(s1) >= 2 /\ s1[1] = "0" /\ s1[2] \in {"x", "X"}
                     THEN From(s1, 3) ELSE s1)
        Number(s0) == Unsigned(Negative(s0), SkipSign(s0))
    IN  Number(SkipWhite(text))

\* m * 10^e with the trailing zeros of m moved into e: equal floats, one form.
RECURSIVE Normal(_, _)
Normal(m, e) ==
    IF m = 0 THEN [mant |-> 0, exp |-> 0]
    ELSE IF m % 10 = 0 THEN Normal(m \div 10, e + 1)
    ELSE [mant |-> m, exp |-> e]

\* iss >> value.floatVal, then the same check: an optional sign, digits with an
\* optional fraction (one of the two not empty), an optional exponent, the whole
\* text consumed.  The value is kept as an exact decimal.
ExtractFloat(text) ==
    LET Checked(ok, neg, digits, nf, eneg, expDigits) ==
            IF ok
            THEN <<TRUE, Normal(Signed(neg, DigitsValue(digits, 10)),
                                Signed(eneg, DigitsValue(expDigits, 10)) - nf)>>
            ELSE <<FALSE, Normal(0, 0)>>
        \* ne is the number of digits s6 starts with
        ExpDigits(neg, digits, nf, hasE, eneg, s6, ne) ==
            Checked(Len(digits) >= 1 /\ (hasE => ne >= 1) /\ ne = Len(s6),
                    neg, digits, nf, eneg, SubSeq(s6, 1, ne))
        \* s6 is what follows the sign of the exponent
        ExpSign(neg, digits, nf, hasE, eneg, s6) ==
            ExpDigits(neg, digits, nf, hasE, eneg, s6,
                      IF hasE THEN RunDigits(s6, 10) ELSE 0)
        \* s5 is what follows the 'e', if there is one
        Exponent(neg, digits, nf, hasE, s5) ==
            ExpSign(neg, digits, nf, hasE, hasE /\ Negative(s5),
                    IF hasE THEN SkipSign(s5) ELSE s5)
        \* s4 is what follows the fraction
        Mantissa(neg, digits, nf, s4, hasE) ==
            Exponent(neg, digits, nf, hasE, IF hasE THEN Tail(s4) ELSE s4)
        \* s3 is what follows the '.', if there is one, nf the digits it starts with
        FractionDigits(neg, intDigits, s3, nf) ==
            Mantissa(neg, intDigits \o SubSeq(s3, 1, nf), nf, From(s3, nf + 1),
                     nf < Len(s3) /\ s3[nf + 1] \in {"e", "E"})
        Fraction(neg, intDigits, s3, dot) ==
            FractionDigits(neg, intDigits, s3, IF dot THEN RunDigits(s3, 10) ELSE 0)
        \* s2 is what follows the integer digits
        Point(neg, intDigits, s2, dot) ==
            Fraction(neg, intDigits, IF dot THEN Tail(s2) ELSE s2, dot)
        \* s1 is what follows the sign, ni the digits it starts with
        IntDigits(neg, s1, ni) ==
            Point(neg, SubSeq(s1, 1, ni), From(s1, ni + 1),
                  ni < Len(s1) /\ s1[ni + 1] = ".")
        Unsigned(neg, s1) == IntDigits(neg, s1, RunDigits(s1, 10))
        Number(s0) == Unsigned(Negative(s0), SkipSign(s0))
    IN  Number(SkipWhite(text))

\* sscanf(cValueText, "'%c'", &c) < 1 && sscanf(cValueText, "%c", &c) < 1:
\* the quoted form stores the character after a leading apostrophe (the closing
\* apostrophe is not counted by sscanf), the bare form stores the first
\* character.  Yields <<ok, char>>.
ScanChar(text) ==
    IF Len(text) >= 2 /\ text[1] = APOS THEN <<TRUE, text[2]>>
    ELSE IF Len(text) >= 1 THEN <<TRUE, text[1]>>
    ELSE <<FALSE, "">>

\* sscanf(cValueText, "\"%[^\"]\"", buf) < 1 && sscanf(cValueText, "%[^\"]", buf) < 1:
\* %[^"] must store at least one character, so the quoted form needs a character
\* other than '"' after the opening quote, and the bare form one at the start.
\* Yields <<ok, stored text>>.
ScanString(text) ==
    IF Len(text) >= 2 /\ text[1] = QUOTE /\ text[2] # QUOTE
    THEN <<TRUE, SubSeq(text, 2, 1 + RunNotIn(Tail(text), {QUOTE}))>>
    ELSE IF Len(text) >= 1 /\ text[1] # QUOTE
    THEN <<TRUE, SubSeq(text, 1, RunNotIn(text, {QUOTE}))>>
    ELSE <<FALSE, <<>>>>

\* parseValue (configuration.cpp:38-97); each branch is handed <<ok, value>>.
parseValue(type, valueText) ==
    LET AsInt(r) == IF r[1] THEN IntValue(r[2]) ELSE ErrorValue(T_invalidSyntax)
        AsFloat(r) == IF r[1] THEN FloatValue(r[2]) ELSE ErrorValue(T_invalidSyntax)
        AsChar(r) == IF r[1] THEN CharValue(r[2]) ELSE ErrorValue(T_invalidSyntax)
        AsString(r) == IF r[1] THEN StringValue(r[2]) ELSE ErrorValue(T_invalidSyntax)
    IN  IF type = T_int THEN AsInt(ExtractInt(valueText, 10))
        ELSE IF type = T_hex THEN AsInt(ExtractInt(valueText, 16))
        ELSE IF type = T_octal THEN AsInt(ExtractInt(valueText, 8))
        ELSE IF type = T_float THEN AsFloat(ExtractFloat(valueText))
        ELSE IF type \in {T_bool, T_boolean} THEN
            IF valueText \in {<<"t","r","u","e">>, <<"1">>} THEN BoolValue(TRUE)
            ELSE IF valueText \in {<<"f","a","l","s","e">>, <<"0">>}
            THEN BoolValue(FALSE)
            ELSE ErrorValue(T_invalidSyntax)
        ELSE IF type = T_char THEN AsChar(ScanChar(valueText))
        ELSE IF type = T_string THEN AsString(ScanString(valueText))
        ELSE ErrorValue(T_invalidTypeName)

\* ------------------------------------------------------------ the line grammar

\* isAllWhitespace (configuration.cpp:244-254): every character before the
\* first '#' is a space.
isAllWhitespace(line) ==
    LET n == RunNotIn(line, {HASH})
    IN  \A i \in 1..n : line[i] = SPACE

\* regex_match(line, includeParse) with includeParse = use "(.*)"
\* (configuration.cpp:119-121): the whole line is `use "`, a payload, `"`.
\* Yields <<matched, payload>>.
includeParse(line) ==
    IF /\ Len(line) >= 6
       /\ SubSeq(line, 1, 5) = <<"u","s","e"," ",QUOTE>>
       /\ line[Len(line)] = QUOTE
    THEN <<TRUE, SubSeq(line, 6, Len(line) - 1)>>
    ELSE <<FALSE, <<>>>>

\* The end of lineParse: ` *(?:#.*)?` up to the end of the line, from index i.
TailMatches(line, i) ==
    LET rest == From(line, i)
        k == RunIn(rest, {SPACE})
    IN  k = Len(rest) \/ rest[k + 1] = HASH

\* The value group of lineParse, ((?:[^\n# ]|".*")*), matched from index i the
\* way a backtracking matcher does: each iteration tries a single character
\* that is no newline, '#' or space, then a quoted run `".*"` (greedy: the
\* last '"' first), then no further iteration; the first way that lets the rest
\* of the line match wins.  Yields the index after the group, 0 for no match.
RECURSIVE ValueEnd(_, _), QuotedEnd(_, _, _)
ValueEnd(line, i) ==
    LET one == IF i <= Len(line) /\ line[i] \notin {"\n", HASH, SPACE}
               THEN ValueEnd(line, i + 1) ELSE 0
        quoted == IF one = 0 /\ i <= Len(line) /\ line[i] = QUOTE
                  THEN QuotedEnd(line, i, Len(line)) ELSE 0
    IN  IF one # 0 THEN one
        ELSE IF quoted # 0 THEN quoted
        ELSE IF TailMatches(line, i) THEN i
        ELSE 0

\* `".*"` opened at index i and closed at index j or, failing that, before it.
QuotedEnd(line, i, j) ==
    IF j <= i THEN 0
    ELSE LET here == IF line[j] = QUOTE THEN ValueEnd(line, j + 1) ELSE 0
         IN  IF here # 0 THEN here ELSE QuotedEnd(line, i, j - 1)

\* An identifier [A-Za-z][A-Za-z0-9_-]* at the start of s: its length, or 0.
IdentLen(s) ==
    IF s # <<>> /\ Head(s) \in Letters THEN 1 + RunIn(Tail(s), IdentChars) ELSE 0

\* trim_left (configuration.cpp:146).
trim_left(s) == From(s, RunIn(s, WhiteSpace) + 1)

\* s without the spaces it starts with: ` *` of lineParse.
SkipSpaces(s) == From(s, RunIn(s, {SPACE}) + 1)

\* regex_match(line, lineParse) (configuration.cpp:137-146):
\* <type> +<name> *= *<value> *(#.*)?  with the value trimmed on the left.
lineParse(line) ==
    LET no == [ok |-> FALSE, type |-> <<>>, name |-> <<>>, valueText |-> <<>>]
        \* s6 is what follows `= *`, end the index after the value group
        Value(type, name, s6, end) ==
            IF end = 0 THEN no
            ELSE [ok |-> TRUE, type |-> type, name |-> name,
                  valueText |-> trim_left(SubSeq(s6, 1, end - 1))]
        \* s4 is what follows `<name> *`
        Equals(type, name, s4) ==
            IF s4 = <<>> \/ Head(s4) # "=" THEN no
            ELSE Value(type, name, SkipSpaces(Tail(s4)),
                       ValueEnd(SkipSpaces(Tail(s4)), 1))
        \* s2 is what follows `<type> +`, n2 the length of the name it starts with
        Name(type, s2, n2) ==
            IF n2 = 0 THEN no
            ELSE Equals(type, SubSeq(s2, 1, n2), SkipSpaces(From(s2, n2 + 1)))
        \* s1 is what follows the type
        Spaces(type, s1) ==
            IF s1 = <<>> \/ Head(s1) # SPACE THEN no
            ELSE Name(type, SkipSpaces(s1), IdentLen(SkipSpaces(s1)))
        Type(n1) ==
            IF n1 = 0 THEN no
            ELSE Spaces(SubSeq(line, 1, n1), From(line, n1 + 1))
    IN  Type(IdentLen(line))

\* ------------------------------------------------------------ tables

\* ConfigTable (configuration.cpp:26): a function from the names bound to values.
EmptyTable == <<>>

\* c1[name] = value of the unordered_map.
Bind(table, name, value) ==
    [n \in DOMAIN table \cup {name} |-> IF n = name THEN value ELSE table[n]]

\* A merge that keeps the entry of c1 for a name bound in both, as
\* result.insert(t.begin(), t.end()) would.
mergeConfigTables_insert(c1, c2) ==
    [n \in DOMAIN c1 \cup DOMAIN c2 |-> IF n \in DOMAIN c1 THEN c1[n] ELSE c2[n]]

\* mergeConfigTables (configuration.cpp:99-104): c1 with every entry of c2
\* written over it.
mergeConfigTables(c1, c2) ==
    [n \in DOMAIN c1 \cup DOMAIN c2 |-> IF n \in DOMAIN c2 THEN c2[n] ELSE c1[n]]

\* ------------------------------------------------------------ loadConfig

\* The index of the last '/' of a file name, 0 for none.
RECURSIVE LastSlash(_)
LastSlash(path) ==
    IF path = <<>> THEN 0
    ELSE IF path[Len(path)] = SLASH THEN Len(path)
    ELSE LastSlash(SubSeq(path, 1, Len(path) - 1))

\* replace_regex_copy(filename, regex("/[^/]*$"), "/" + payload)
\* (configuration.cpp:122-123): the last '/' and what follows it are replaced;
\* a file name with no '/' has no match and is copied unchanged.
newFilename(filename, payload) ==
    LET k == LastSlash(filename)
    IN  IF k = 0 THEN filename
        ELSE SubSeq(filename, 1, k - 1) \o <<SLASH>> \o payload

\* The canonical stored type of lines 166-169.
StoredType(type) ==
    IF type \in {T_hex, T_octal} THEN T_int
    ELSE IF type = T_boolean THEN T_bool
    ELSE type

\* One more warning about name.
Warn(warnings, name) ==
    [n \in DOMAIN warnings \cup {name} |->
        IF n \in DOMAIN warnings
        THEN warnings[n] + (IF n = name THEN 1 ELSE 0)
        ELSE 1]

\* What a call of loadConfig comes to: status "ok" and the table, or the exit(1)
\* it ran into (with the file and line reported), or "Unbounded" when the call
\* never returns by itself; the include edges followed (loads); the warnings
\* printed, counted per name.
LoadResult(status, table, loads, warnings, file, line) ==
    [status |-> status, table |-> table, loads |-> loads, warnings |-> warnings,
     file |-> file, line |-> line]

\* loadConfig (configuration.cpp:107-181).  stack holds the files whose load is
\* in progress: a file included again while its own load is in progress is read
\* to the same `use` line again, without end, until the process runs out of
\* stack or of file descriptors.
RECURSIVE loadConfig(_, _, _), LoadLines(_, _, _, _, _)
loadConfig(files, filename, stack) ==
    IF filename \notin DOMAIN files
    THEN LoadResult("FileNotFound", EmptyTable, <<>>, <<>>, filename, 0)
    ELSE LoadLines(files, filename, 1,
                   LoadResult("ok", EmptyTable, <<>>, <<>>, filename, 0),
                   stack \cup {filename})

\* The loop of loadConfig from line lineNum on, result being acc so far.
LoadLines(files, filename, lineNum, acc, stack) ==
    IF lineNum > Len(files[filename]) THEN acc
    ELSE
    LET next(result) == LoadLines(files, filename, lineNum + 1, result, stack)
        fail(status) ==
            LoadResult(status, EmptyTable, acc.loads, acc.warnings, filename, lineNum)
        \* lines 127-133: t is what loading the included file came to
        Merge(loads1, t, warnings1) ==
            IF t.status # "ok"
            THEN LoadResult(t.status, EmptyTable, loads1 \o t.loads, warnings1,
                            t.file, t.line)
            ELSE next(LoadResult("ok", mergeConfigTables(acc.table, t.table),
                                 loads1 \o t.loads, warnings1, filename, 0))
        Included(loads1, t) ==
            Merge(loads1, t,
                  [n \in DOMAIN acc.warnings \cup DOMAIN t.warnings
                          \cup (DOMAIN t.table \cap DOMAIN acc.table) |->
                       (IF n \in DOMAIN acc.warnings THEN acc.warnings[n] ELSE 0)
                     + (IF n \in DOMAIN t.warnings THEN t.warnings[n] ELSE 0)
                     + (IF n \in DOMAIN t.table \cap DOMAIN acc.table THEN 1 ELSE 0)])
        \* lines 122-126
        Include(target, loads1) ==
            IF target \in stack
            THEN LoadResult("Unbounded", EmptyTable, loads1, acc.warnings,
                            filename, lineNum)
            ELSE Included(loads1, loadConfig(files, target, stack))
        UseLine(payload, target) ==
            Include(target,
                    Append(acc.loads,
                           [from |-> filename, payload |-> payload, to |-> target]))
        \* lines 148-170: p is the match of lineParse, value what parseValue returned
        Assigned(p, value) ==
            IF ~p.ok THEN fail("SyntaxError")
            ELSE IF value.type = T_invalidTypeName THEN fail("InvalidTypeName")
            ELSE IF value.type = T_invalidSyntax THEN fail("InvalidValueFormat")
            ELSE next(LoadResult("ok",
                         Bind(acc.table, p.name,
                              [value EXCEPT !.type = StoredType(p.type)]),
                         acc.loads,
                         IF p.name \in DOMAIN acc.table
                         THEN Warn(acc.warnings, p.name) ELSE acc.warnings,
                         filename, 0))
        Assignment(p) == Assigned(p, parseValue(p.type, p.valueText))
        Line(line, inc) ==
            IF isAllWhitespace(line) THEN next(acc)
            ELSE IF inc[1] THEN UseLine(inc[2], newFilename(filename, inc[2]))
            ELSE Assignment(lineParse(line))
    IN  Line(files[filename][lineNum], includeParse(files[filename][lineNum]))

\* ------------------------------------------------------------ the getters

\* What a getter comes to: status "ok" and the value returned, or the exit(1) it
\* ran into ("NotFound" for `Could not find configuration variable`,
\* "TypeMismatch" for `Incompatable type`, with the name reported and the type
\* found), or "Unbounded" when the call never returns by itself.
GetResult(status, value, name, found) ==
    [status |-> status, value |-> value, name |-> name, found |-> found]

\* A getter that tests only that the name is bound.
Lookup_noTypeTest(config, name, type) ==
    IF name \notin DOMAIN config THEN GetResult("NotFound", NoValue, name, <<>>)
    ELSE GetResult("ok", config[name], name, type)

\* The two tests every getter starts with (configuration.cpp:257-265 and the
\* same lines of the other four): the name is bound, and to the type asked for.
Lookup(config, name, type) ==
    IF name \notin DOMAIN config THEN GetResult("NotFound", NoValue, name, <<>>)
    ELSE IF config[name].type # type
    THEN GetResult("TypeMismatch", NoValue, name, config[name].type)
    ELSE GetResult("ok", config[name], name, type)

\* getIntConfig (configuration.cpp:256-267).
getIntConfig(config, name) ==
    LET r == Lookup(config, name, T_int)
    IN  IF r.status = "ok" THEN [r EXCEPT !.value = IntValue(config[name].intVal)]
        ELSE r

\* getFloatConfig (configuration.cpp:269-280).
getFloatConfig(config, name) ==
    LET r == Lookup(config, name, T_float)
    IN  IF r.status = "ok"
        THEN [r EXCEPT !.value = FloatValue(config[name].floatVal)]
        ELSE r

\* getBoolConfig (configuration.cpp:282-293).
getBoolConfig(config, name) ==
    LET r == Lookup(config, name, T_bool)
    IN  IF r.status = "ok" THEN [r EXCEPT !.value = BoolValue(config[name].boolVal)]
        ELSE r

\* getCharConfig (configuration.cpp:295-306).
getCharConfig(config, name) ==
    LET r == Lookup(config, name, T_char)
    IN  IF r.status = "ok" THEN [r EXCEPT !.value = CharValue(config[name].charVal)]
        ELSE r

\* getStringConfig (configuration.cpp:314-329) with expandVar (309-312), which
\* calls getStringConfig on the same store for the name matched.  stack holds
\* the names whose expansion is in progress: a name met again while its own
\* expansion is in progress is expanded again, without end, until the process
\* runs out of stack.
RECURSIVE getStringConfig(_, _, _), regex_replace(_, _, _)
getStringConfig(config, name, stack) ==
    LET Expanded(out) ==
            IF out.status # "ok" THEN out
            ELSE GetResult("ok", StringValue(out.value.stringVal), name, T_string)
        Found(r) ==
            IF r.status # "ok" THEN r
            ELSE Expanded(regex_replace(config, config[name].stringVal,
                                        stack \cup {name}))
    IN  Found(Lookup(config, name, T_string))

\* What replacing comes to, sub being what the text starts with came to and
\* rest what the text after it came to.
Replaced(sub, rest) ==
    IF sub.status # "ok" THEN sub
    ELSE IF rest.status # "ok" THEN rest
    ELSE GetResult("ok", StringValue(sub.value.stringVal \o rest.value.stringVal),
                   <<>>, T_string)

\* The length of the name after the '$' str starts with, 0 for no match of
\* varSearch at the start of str.
VarLen(str) == IF Head(str) = DOLLAR THEN IdentLen(Tail(str)) ELSE 0

\* The character str starts with, copied.
Copied(str) == GetResult("ok", StringValue(<<Head(str)>>), <<>>, T_string)

\* An expansion that puts in the stored text of the name matched, as it is.
regex_replace_stored(config, str, stack) ==
    LET RECURSIVE Pass(_)
        At(t, n) ==
            Replaced(IF n = 0 THEN Copied(t)
                     ELSE Lookup(config, SubSeq(t, 2, n + 1), T_string),
                     Pass(From(t, n + 2)))
        Pass(t) ==
            IF t = <<>> THEN GetResult("ok", StringValue(<<>>), <<>>, T_string)
            ELSE At(t, VarLen(t))
    IN  Pass(str)

\* regex_replace(str, varSearch, expandVar) with varSearch =
\* \$([A-Za-z][A-Za-z0-9_-]*): from left to right, each '$' followed by an
\* identifier (as long as it can be) is replaced by what expandVar returns for
\* it; every other character is copied.
regex_replace(config, str, stack) ==
    LET expandVar(varName) ==
            IF varName \in stack /\ varName \in DOMAIN config
                                 /\ config[varName].type = T_string
            THEN GetResult("Unbounded", NoValue, varName, T_string)
            ELSE getStringConfig(config, varName, stack)
        At(n) ==
            Replaced(IF n = 0 THEN Copied(str) ELSE expandVar(SubSeq(str, 2, n + 1)),
                     regex_replace(config, From(str, n + 2), stack))
    IN  IF str = <<>> THEN GetResult("ok", StringValue(<<>>), <<>>, T_string)
        ELSE At(VarLen(str))

\* ------------------------------------------------------------ initConfig

ARG_useConfig == <<"-","-","u","s","e","-","c","o","n","f","i","g">>
ARG_addConfig == <<"-","-","a","d","d","-","c","o","n","f","i","g">>

\* What a call of initConfig(argc, argv, defaultFilename) comes to: status "ok"
\* with the statics as it leaves them, or the exit(1) it ran into.
InitResult(status, cf, defs) == [status |-> status, configFile |-> cf, userDefs |-> defs]

\* userDefs after `--add-config file`, t being the table loaded from the file,
\* were the file's entries to replace those userDefs holds.
AddConfig_fileWins(t, defs) == mergeConfigTables(defs, t)

\* userDefs after `--add-config file`, t being the table loaded from the file
\* (configuration.cpp:191).
AddConfig(t, defs) == mergeConfigTables(t, defs)

\* The loop of initConfig (configuration.cpp:185-222) from argv[k] on; argv[1]
\* is the program's name, so the C index i is k - 1 and argc is Len(argv).
RECURSIVE ScanArgs(_, _, _, _, _)
ScanArgs(fs, argv, k, cf, defs) ==
    LET \* line 191: t is what loadConfig(argv[i + 1]) came to
        Added(t) ==
            IF t.status # "ok" THEN InitResult(t.status, cf, defs)
            ELSE ScanArgs(fs, argv, k + 2, cf, AddConfig(t.table, defs))
        \* lines 206-220: v is what parseValue(type, value) returned
        Defined(name, v) ==
            IF v.type = T_invalidTypeName THEN InitResult("InvalidTypeName", cf, defs)
            ELSE IF v.type = T_invalidSyntax
            THEN InitResult("InvalidValueFormat", cf, defs)
            ELSE ScanArgs(fs, argv, k + 3, cf, Bind(defs, name, v))
    IN  IF k > Len(argv) THEN InitResult("ok", cf, defs)
        ELSE IF argv[k] = ARG_useConfig /\ k < Len(argv)
        THEN ScanArgs(fs, argv, k + 2, argv[k + 1], defs)
        ELSE IF argv[k] = ARG_addConfig /\ k < Len(argv)
        THEN Added(loadConfig(fs, argv[k + 1], {}))
        ELSE IF Len(argv[k]) >= 2 /\ SubSeq(argv[k], 1, 2) = <<"-", "D">>
        THEN IF k = Len(argv) THEN InitResult("MissingType", cf, defs)
             ELSE IF k = Len(argv) - 1 THEN InitResult("MissingTypeOrValue", cf, defs)
             ELSE Defined(From(argv[k], 3), parseValue(argv[k + 1], argv[k + 2]))
        ELSE ScanArgs(fs, argv, k + 1, cf, defs)

\* initConfig(argc, argv, defaultFilename) (configuration.cpp:183-223).
initConfig(fs, argv, defaultFilename, defs) ==
    ScanArgs(fs, argv, 2, defaultFilename, defs)

\* ------------------------------------------------------------ the program

VARIABLES
    files,       \* the file system: file name -> the lines of the file
    configFile,  \* Configuration::configFile
    userDefs,    \* Configuration::userDefs
    m_instance,  \* Configuration::m_instance: NULL or the address of the store
    heap,        \* the Configuration objects alive: address -> its fields
    exited,      \* "no", or what the exit(1) the process ended with was about
    last,        \* the last getter or parseValue call and what it came to
    loaded,      \* what the last call of loadConfig made for a store came to
    args,        \* argv of the last call of initConfig(argc, argv, ...)
    probe,       \* the (type, valueText) pair handed to parseValue
    pc,          \* where in Configuration::get each thread is
    ret          \* what the last get() of each thread returned

vars ==
    <<files, configFile, userDefs, m_instance, heap, exited, last, loaded, args,
      probe, pc, ret>>

NULL == 0

\* The addresses operator new can return.
MaxInstances == 2
Addrs == 1..MaxInstances

\* The threads of the program; the first is the one that runs main.
NumThreads == 2
Threads == 1..NumThreads
Main == 1

NoCall == [op |-> "none", arg |-> <<>>, status |-> "none", value |-> NoValue,
           name |-> <<>>, found |-> <<>>]
NoLoad == LoadResult("none", EmptyTable, <<>>, <<>>, <<>>, 0)
NoProbe == [type |-> <<>>, text |-> <<>>]

\* A function without the entry at x.
Without(f, x) == [y \in DOMAIN f \ {x} |-> f[y]]

\* The statics as the program starts (configuration.cpp:29-31), on file system fs.
Statics(fs) ==
    /\ files = fs
    /\ configFile = <<>>
    /\ userDefs = EmptyTable
    /\ m_instance = NULL
    /\ heap = <<>>
    /\ exited = "no"
    /\ last = NoCall
    /\ loaded = NoLoad
    /\ args = <<>>
    /\ pc = [t \in Threads |-> "idle"]
    /\ ret = [t \in Threads |-> NULL]

\* The program as it starts, no parseValue call pending.
Start(fs) ==
    /\ probe = NoProbe
    /\ Statics(fs)

\* Configuration::initConfig(filename) (configuration.cpp:225-227).
InitConfigFile(filename) ==
    /\ exited = "no"
    /\ configFile' = filename
    /\ UNCHANGED <<files, userDefs, m_instance, heap, exited, last, loaded, args,
                   probe, pc, ret>>

\* Configuration::initConfig(argc, argv, defaultFilename).
InitConfigArgs(argv, defaultFilename) ==
    /\ exited = "no"
    /\ args' = argv
    /\ \E r \in {initConfig(files, argv, defaultFilename, userDefs)} :
          IF r.status = "ok"
          THEN configFile' = r.configFile /\ userDefs' = r.userDefs
               /\ UNCHANGED exited
          ELSE exited' = r.status /\ UNCHANGED <<configFile, userDefs>>
    /\ UNCHANGED <<files, m_instance, heap, last, loaded, probe, pc, ret>>

\* The addresses `new Configuration()` can return when get() has to build.
NewAddrs == IF m_instance = NULL THEN Addrs \ DOMAIN heap ELSE {m_instance}

\* The store get() would build were the primary file's entries to replace the
\* overrides.
BuildConfig_primaryWins(t) == mergeConfigTables(userDefs, t)

\* The store get() builds: loadConfig(configFile) with userDefs merged over it
\* (configuration.cpp:233).
BuildConfig(t) == mergeConfigTables(t, userDefs)

\* What get() comes to once m_instance is the new object at address a, r being
\* what loadConfig(configFile) came to (configuration.cpp:232-233).
Built(a, r) ==
    IF r.status = "ok"
    THEN [status |-> "ok", instance |-> a,
          heap |-> Bind(heap, a, [config |-> BuildConfig(r.table),
                                  populated |-> TRUE]),
          loaded |-> r]
    ELSE [status |-> r.status, instance |-> a,
          heap |-> Bind(heap, a, [config |-> EmptyTable, populated |-> FALSE]),
          loaded |-> r]

\* A get() that builds the store anew on every call.
get_uncached(a) == Built(a, loadConfig(files, configFile, {}))

\* What Configuration::get() (configuration.cpp:230-236) comes to when run
\* without interruption, new returning address a if it is called.
get(a) ==
    IF m_instance # NULL
    THEN [status |-> "ok", instance |-> m_instance, heap |-> heap, loaded |-> loaded]
    ELSE Built(a, loadConfig(files, configFile, {}))

\* A call of Configuration::get() by the main thread.
Get ==
    /\ exited = "no"
    /\ \E a \in NewAddrs :
          \E g \in {get(a)} :
             /\ m_instance' = g.instance
             /\ heap' = g.heap
             /\ loaded' = g.loaded
             /\ exited' = IF g.status = "ok" THEN "no" ELSE g.status
             /\ ret' = IF g.status = "ok" THEN [ret EXCEPT ![Main] = g.instance]
                       ELSE ret
    /\ UNCHANGED <<files, configFile, userDefs, last, args, probe, pc>>

\* Configuration::refresh() (configuration.cpp:238-242).
Refresh ==
    /\ exited = "no"
    /\ m_instance' = NULL
    /\ heap' = IF m_instance # NULL THEN Without(heap, m_instance) ELSE heap
    /\ UNCHANGED <<files, configFile, userDefs, exited, last, loaded, args, probe,
                   pc, ret>>

\* The getter named op on a store.
Getter(op, config, name) ==
    IF op = "getInt" THEN getIntConfig(config, name)
    ELSE IF op = "getFloat" THEN getFloatConfig(config, name)
    ELSE IF op = "getBool" THEN getBoolConfig(config, name)
    ELSE IF op = "getChar" THEN getCharConfig(config, name)
    ELSE getStringConfig(config, name, {})

GetterOps == {"getInt", "getFloat", "getBool", "getChar", "getString"}

\* GET_INT(name) .. GET_STRING(name) (configuration.h:167-171):
\* Configuration::get()->getter(name).
GetValue(op, name) ==
    /\ exited = "no"
    /\ \E a \in NewAddrs :
          \E g \in {get(a)} :
             /\ m_instance' = g.instance
             /\ heap' = g.heap
             /\ loaded' = g.loaded
             /\ IF g.status # "ok"
                THEN exited' = g.status /\ UNCHANGED <<last, ret>>
                ELSE \E r \in {Getter(op, g.heap[g.instance].config, name)} :
                        /\ exited' = IF r.status = "ok" THEN "no" ELSE r.status
                        /\ last' = [op |-> op, arg |-> name, status |-> r.status,
                                    value |-> r.value, name |-> r.name,
                                    found |-> r.found]
                        /\ ret' = [ret EXCEPT ![Main] = g.instance]
    /\ UNCHANGED <<files, configFile, userDefs, args, probe, pc>>

\* The environment rewrites a configuration file.
WriteFile(path, body) ==
    /\ exited = "no"
    /\ files' = Bind(files, path, body)
    /\ UNCHANGED <<configFile, userDefs, m_instance, heap, exited, last, loaded,
                   args, probe, pc, ret>>

\* ------------------------------------------------------------ file texts

\* The line `<type> <name> = <text>`.
Assign(type, name, text) == type \o <<SPACE>> \o name \o <<SPACE, "=", SPACE>> \o text

\* The line `use "<payload>"`.
Use(payload) == <<"u","s","e",SPACE,QUOTE>> \o payload \o <<QUOTE>>

\* The text `"<t>"`.
Quoted(t) == <<QUOTE>> \o t \o <<QUOTE>>

\* The sequences of at most n elements of set.
RECURSIVE SeqsUpTo(_, _)
SeqsUpTo(set, n) ==
    IF n = 0 THEN {<<>>}
    ELSE LET shorter == SeqsUpTo(set, n - 1)
         IN  shorter \cup {Append(q, x) : q \in shorter, x \in set}

\* ------------------------------------------------------------ names and files

NA == <<"A">>
NB == <<"B">>
NC == <<"C">>
ND == <<"D">>
NE == <<"E">>
NF == <<"F">>

\* File names: in a directory, and in the working directory.
ROOT == <<"d", SLASH, "m">>
ALT == <<"d", SLASH, "n">>
INC_B == <<"d", SLASH, "b">>
INC_C == <<"d", SLASH, "c">>
FLAT == <<"m">>
FLAT_B == <<"b">>

\* ------------------------------------------------------------ loadConfig alone

\* The lines a file loaded directly is made of.
LoadLineSet ==
    { Assign(T_int, NA, <<"1">>), Assign(T_int, NA, <<"2">>),
      Assign(T_hex, NB, <<"0","x","1","F">>), Use(<<"b">>) }

\* The bodies of the file it includes.
IncludedBodies ==
    { <<Assign(T_int, NA, <<"7">>)>>,
      <<Assign(T_octal, NB, <<"0","1","7">>), Use(<<"c">>)>> }

MaxLoadLines == 3

\* The same root file in a directory (d/m) and in the working directory (m),
\* each beside the file b it may include, which may include c.
LoadFileSystems ==
    { (ROOT :> body) @@ (FLAT :> body) @@ (INC_B :> inc) @@ (FLAT_B :> inc) @@
      (INC_C :> <<Assign(T_int, NA, <<"9">>)>>) :
        body \in SeqsUpTo(LoadLineSet, MaxLoadLines), inc \in IncludedBodies }

InitLoad == \E fs \in LoadFileSystems : Start(fs)

\* A call of loadConfig(filename).
LoadCall(filename) ==
    /\ exited = "no"
    /\ loaded = NoLoad
    /\ \E r \in {loadConfig(files, filename, {})} :
          /\ loaded' = r
          /\ exited' = IF r.status = "ok" THEN "no" ELSE r.status
    /\ UNCHANGED <<files, configFile, userDefs, m_instance, heap, last, args,
                   probe, pc, ret>>

NextLoad == \E f \in {ROOT, FLAT} : LoadCall(f)

SpecLoad == InitLoad /\ [][NextLoad]_vars

\* The definitions a file makes, in text order, a `use` line standing for the
\* definitions of the file it names: <<name, type, valueText>> each.
RECURSIVE Definitions(_, _)
Definitions(fs, filename) ==
    LET RECURSIVE Of(_)
        Of(k) ==
            IF k = 0 THEN <<>>
            ELSE LET line == fs[filename][k]
                     inc == includeParse(line)
                     p == lineParse(line)
                 IN  Of(k - 1) \o
                     (IF isAllWhitespace(line) THEN <<>>
                      ELSE IF inc[1]
                      THEN Definitions(fs, newFilename(filename, inc[2]))
                      ELSE <<p>>)
    IN  Of(Len(fs[filename]))

\* The last definition of name among defs.
LastDefinition(defs, name) ==
    LET k == CHOOSE i \in 1..Len(defs) :
                /\ defs[i].name = name
                /\ \A j \in (i + 1)..Len(defs) : defs[j].name # name
    IN  defs[k]

\* C1: a successful loadConfig binds exactly the names its file and the files it
\* includes define, each to the value of its last definition in text order, a
\* `use` line counting as the definitions of the included file at that line.
C1_LastDefinitionWins ==
    loaded.status = "ok" =>
        LET defs == Definitions(files, loaded.file)
        IN  /\ DOMAIN loaded.table = {defs[i].name : i \in 1..Len(defs)}
            /\ \A n \in DOMAIN loaded.table :
                  LET d == LastDefinition(defs, n)
                  IN  loaded.table[n] =
                        [parseValue(d.type, d.valueText) EXCEPT
                            !.type = StoredType(d.type)]

\* C1 witness: a load in which the included file's A overwrote the A assigned
\* before the `use` line and the A assigned after it overwrote the included one.
C1_Witness ==
    /\ loaded.status = "ok"
    /\ loaded.file = ROOT
    /\ files[ROOT] = <<Assign(T_int, NA, <<"1">>), Use(<<"b">>),
                       Assign(T_int, NA, <<"2">>)>>
    /\ NA \in DOMAIN loadConfig(files, INC_B, {}).table
    /\ loaded.warnings[NA] = 2
    /\ loaded.table[NA].intVal = 2

\* The directory part of a file name: what precedes its last '/', and "." for
\* a file of the working directory.
DirectoryOf(filename) ==
    IF LastSlash(filename) = 0 THEN <<".">>
    ELSE SubSeq(filename, 1, LastSlash(filename) - 1)

\* C7: every `use "<payload>"` line makes loadConfig load the file named by the
\* directory of the including file, "/" and the payload.
C7_IncludeRelativeToDirectory ==
    \A i \in 1..Len(loaded.loads) :
        LET e == loaded.loads[i]
        IN  e.to = DirectoryOf(e.from) \o <<SLASH>> \o e.payload

\* ------------------------------------------------------------ string literals

NS == <<"S">>

\* The characters a string literal is made of here: none is '"' or a newline.
StringChars == {"a", "b", SPACE, HASH}

MaxTextLen == 3

\* The literal "t" on its own, and as the value of the only line of d/m.
InitParse ==
    \E t \in SeqsUpTo(StringChars, MaxTextLen) :
        /\ probe = [type |-> T_string, text |-> Quoted(t)]
        /\ Statics(ROOT :> <<Assign(T_string, NS, Quoted(t))>>)

\* A call of parseValue(probe.type, probe.text).
ParseValueCall ==
    /\ exited = "no"
    /\ last = NoCall
    /\ \E v \in {parseValue(probe.type, probe.text)} :
          last' = [op |-> "parseValue", arg |-> probe.text,
                   status |-> IF v.type = T_invalidSyntax THEN "InvalidValueFormat"
                              ELSE IF v.type = T_invalidTypeName
                              THEN "InvalidTypeName" ELSE "ok",
                   value |-> v, name |-> probe.text, found |-> v.type]
    /\ UNCHANGED <<files, configFile, userDefs, m_instance, heap, exited,
                   loaded, args, probe, pc, ret>>

NextParse ==
    \/ ParseValueCall
    \/ InitConfigFile(ROOT)
    \/ GetValue("getString", NS)

SpecParse == InitParse /\ [][NextParse]_vars

\* C8: parseValue with type string, given "t" for any run t of characters other
\* than '"' and newline, the empty run included, returns a string value whose
\* text is t; and the file line `string S = ""` loads, GET_STRING("S") returning
\* the empty string.
C8_QuotedStringStoresItsText ==
    /\ last.op = "parseValue" =>
          /\ last.status = "ok"
          /\ last.value = StringValue(SubSeq(probe.text, 2, Len(probe.text) - 1))
    /\ (configFile = ROOT /\ files[ROOT] = <<Assign(T_string, NS, Quoted(<<>>))>>) =>
          /\ exited = "no"
          /\ last.op = "getString" =>
                last.status = "ok" /\ last.value = StringValue(<<>>)

\* ------------------------------------------------------------ the getters' stores

PROG == <<"p","r","o","g">>

\* -D<name> as one argument.
Define(name) == <<"-", "D">> \o name

\* The lines of the primary file of the stores the getters are called on.
GetLineSet ==
    { Assign(T_string, NA, Quoted(<<DOLLAR, "B">>)),
      Assign(T_string, NB, Quoted(<<DOLLAR, "A">>)),
      Assign(T_string, NA, Quoted(<<"a", DOLLAR, "A">>)),
      Assign(T_string, NB, Quoted(<<DOLLAR, "C", DOLLAR>>)),
      Assign(T_hex, NA, <<"0","x","1","F">>),
      Assign(T_boolean, NB, <<"t","r","u","e">>),
      Assign(T_char, NC, <<APOS,"c",APOS>>) }

MaxGetLines == 2

\* The command line of initConfig: four -D triples.
GetArgv ==
    <<PROG, Define(NC), T_string, <<"x">>, Define(ND), T_float, <<"1",".","5">>,
      Define(NE), T_octal, <<"1","7">>, Define(NF), T_boolean, <<"0">>>>

\* The names the getters are called with.
GetNames == {NA, NB, NC, ND}

InitGet == \E body \in SeqsUpTo(GetLineSet, MaxGetLines) : Start(ROOT :> body)

NextGet ==
    \/ InitConfigArgs(GetArgv, ROOT)
    \/ \E op \in GetterOps, name \in GetNames : GetValue(op, name)

SpecGet == InitGet /\ [][NextGet]_vars

\* The store of the singleton.
Store == heap[m_instance].config

\* The stored type each getter asks for.
KindOf(op) ==
    IF op = "getInt" THEN T_int
    ELSE IF op = "getFloat" THEN T_float
    ELSE IF op = "getBool" THEN T_bool
    ELSE IF op = "getChar" THEN T_char
    ELSE T_string

FiveKinds == {T_int, T_float, T_bool, T_char, T_string}

\* The names text refers to: each identifier that follows a '$'.
RefNames(text) ==
    { SubSeq(text, i + 1, i + IdentLen(From(text, i + 1))) :
        i \in {j \in 1..Len(text) : text[j] = DOLLAR /\ IdentLen(From(text, j + 1)) > 0} }

\* text with each `$NAME` replaced by texts[NAME], in one pass.
RECURSIVE Substitute(_, _)
Substitute(text, texts) ==
    IF text = <<>> THEN <<>>
    ELSE LET n == IF Head(text) = DOLLAR THEN IdentLen(Tail(text)) ELSE 0
         IN  IF n = 0 THEN <<Head(text)>> \o Substitute(Tail(text), texts)
             ELSE texts[SubSeq(text, 2, n + 1)] \o Substitute(From(text, n + 2), texts)

IsDefine(arg) == Len(arg) >= 2 /\ SubSeq(arg, 1, 2) = <<"-", "D">>

\* The stored kind of a declared type: hex and octal are int, boolean is bool.
DeclaredKind(type) ==
    IF type \in {T_hex, T_octal} THEN T_int
    ELSE IF type = T_boolean THEN T_bool
    ELSE type

\* Every entry loaded from the file and every -D override has the kind of its
\* declared type, and every stored kind is one of the five.
KindsCanonical ==
    /\ loaded.status = "ok" =>
          LET defs == Definitions(files, loaded.file)
          IN  \A n \in DOMAIN loaded.table :
                 loaded.table[n].type = DeclaredKind(LastDefinition(defs, n).type)
    /\ \A k \in 1..Len(args) :
          IsDefine(args[k]) =>
             /\ From(args[k], 3) \in DOMAIN userDefs
             /\ userDefs[From(args[k], 3)].type = DeclaredKind(args[k + 1])
    /\ m_instance # NULL => \A n \in DOMAIN Store : Store[n].type \in FiveKinds

\* The first two cases of a getter: NotFound for a name not bound, TypeMismatch
\* (reporting the kind found) for a name bound to another kind.
GetterFailures ==
    last.op \in GetterOps =>
        /\ last.arg \notin DOMAIN Store =>
              last.status = "NotFound" /\ last.name = last.arg
        /\ (last.arg \in DOMAIN Store /\ Store[last.arg].type # KindOf(last.op)) =>
              /\ last.status = "TypeMismatch"
              /\ last.name = last.arg
              /\ last.found = Store[last.arg].type

\* C3 as stated: a getter fails with NotFound for a name not bound, with
\* TypeMismatch for a name bound to another kind, and otherwise returns the
\* stored value; hex and octal are stored as int and boolean as bool, from a
\* file and from -D alike.  (The calls that never return are left to C10.)
C3_GetterReturnsStoredValue ==
    /\ GetterFailures
    /\ KindsCanonical
    /\ (last.op \in GetterOps /\ last.arg \in DOMAIN Store
            /\ Store[last.arg].type = KindOf(last.op)
            /\ last.status # "Unbounded") =>
          last.status = "ok" /\ last.value = Store[last.arg]

\* C3 amended: as C3, the stored value being what getString returns only for a
\* stored text with no `$NAME` reference in it.
C3_GetterReturnsStoredValueUnlessReference ==
    /\ GetterFailures
    /\ KindsCanonical
    /\ (last.op \in GetterOps /\ last.arg \in DOMAIN Store
            /\ Store[last.arg].type = KindOf(last.op)
            /\ (last.op = "getString" => RefNames(Store[last.arg].stringVal) = {})) =>
          last.status = "ok" /\ last.value = Store[last.arg]

\* C3 witness: GET_STRING on a name the file declares hex fails with
\* TypeMismatch, the kind found being int, while the override declared octal is
\* stored as int and returned by no getter but getInt.
C3_Witness ==
    /\ last.op = "getString" /\ last.arg = NA
    /\ files[ROOT] = <<Assign(T_hex, NA, <<"0","x","1","F">>)>>
    /\ last.status = "TypeMismatch" /\ last.found = T_int
    /\ Store[NA] = IntValue(31)
    /\ args = GetArgv /\ userDefs[NE] = IntValue(15) /\ userDefs[NF] = BoolValue(FALSE)

\* C4 as stated: the text getString returns is the stored text with each `$NAME`
\* replaced by the stored text of the string entry NAME, references inside the
\* substituted text left as they are.  (The calls that never return are left
\* to C10.)
C4_ExpansionIsOneLevel ==
    (/\ last.op = "getString"
     /\ last.status = "ok"
     /\ \A n \in RefNames(Store[last.arg].stringVal) :
           n \in DOMAIN Store /\ Store[n].type = T_string) =>
        /\ last.value.stringVal =
              Substitute(Store[last.arg].stringVal,
                         [n \in RefNames(Store[last.arg].stringVal) |->
                             Store[n].stringVal])

\* C4 amended: whenever getString returns, the text returned is the stored text
\* with each `$NAME` replaced by the text getString returns for NAME, which is
\* NAME's stored text with its own references expanded in turn.
C4_ExpansionIsRecursive ==
    (last.op = "getString" /\ last.status = "ok") =>
        /\ last.arg \in DOMAIN Store /\ Store[last.arg].type = T_string
        /\ \A n \in RefNames(Store[last.arg].stringVal) :
              getStringConfig(Store, n, {}).status = "ok"
        /\ last.value.stringVal =
              Substitute(Store[last.arg].stringVal,
                         [n \in RefNames(Store[last.arg].stringVal) |->
                             getStringConfig(Store, n, {}).value.stringVal])

\* C4 witness: A = "$B" and B = "$C$" in the file, C = x by -D: GET_STRING("A")
\* returned x$, the reference in B's stored text expanded.
C4_Witness ==
    /\ last.op = "getString" /\ last.arg = NA /\ last.status = "ok"
    /\ Store[NA].stringVal = <<DOLLAR, "B">>
    /\ Store[NB].stringVal = <<DOLLAR, "C", DOLLAR>>
    /\ Store[NC].stringVal = <<"x">>
    /\ last.value.stringVal = <<"x", DOLLAR>>

\* C10: every call of getStringConfig ends, with a string or with one of the
\* fatal lookup errors NotFound and TypeMismatch.
C10_GetStringTerminates ==
    last.op = "getString" => last.status \in {"ok", "NotFound", "TypeMismatch"}

\* ------------------------------------------------------------ the command line

\* An option of the command line with its arguments.
OptUse(file) == <<ARG_useConfig, file>>
OptAdd(file) == <<ARG_addConfig, file>>
OptDefine(name, type, text) == <<Define(name), type, text>>

\* The options initConfig is called with: the two additional files, a -D triple,
\* and a -D with nothing after it.
Options ==
    { OptAdd(INC_B), OptAdd(INC_C), OptDefine(NA, T_hex, <<"9">>), <<Define(NB)>> }

MaxOpts == 2

\* The command lines of at most n options.
RECURSIVE Argvs(_)
Argvs(n) ==
    IF n = 0 THEN {<<PROG>>}
    ELSE Argvs(n - 1) \cup {argv \o opt : argv \in Argvs(n - 1), opt \in Options}

\* What the primary file d/m may hold.
RootBodies ==
    { <<Assign(T_int, NA, <<"1">>)>>,
      <<Assign(T_int, NA, <<"2">>), Assign(T_int, NB, <<"2">>)>> }

\* The files: the primary file with the lines of body, the file --use-config
\* names and the two --add-config name, both of which define A.
FilesWith(body) ==
    (ROOT :> body) @@ (ALT :> <<Assign(T_int, NB, <<"5">>)>>) @@
    (INC_B :> <<Assign(T_int, NA, <<"3">>)>>) @@
    (INC_C :> <<Assign(T_int, NA, <<"4">>), Assign(T_int, NB, <<"4">>)>>)

LifeFileSystems == {FilesWith(body) : body \in RootBodies}

InitArgs ==
    Start(FilesWith(<<Assign(T_int, NA, <<"2">>), Assign(T_int, NB, <<"2">>)>>))

NextArgs ==
    \/ \E argv \in Argvs(MaxOpts) : InitConfigArgs(argv, ROOT)
    \/ Get

SpecArgs == InitArgs /\ [][NextArgs]_vars

\* The files --add-config names on argv, in the order of argv.
AddFiles(argv) ==
    LET at == {k \in 1..(Len(argv) - 1) : argv[k] = ARG_addConfig}
        Ordered[S \in SUBSET at] ==
            IF S = {} THEN <<>>
            ELSE LET k == CHOOSE x \in S : \A y \in S : x <= y
                 IN  <<argv[k + 1]>> \o Ordered[S \ {k}]
    IN  Ordered[at]

\* The names the -D triples of argv define.
DefinedNames(argv) == {From(argv[k], 3) : k \in {j \in 1..Len(argv) : IsDefine(argv[j])}}

\* The value the last -D triple of argv for name gives it.
DefinedValue(argv, name) ==
    LET k == CHOOSE x \in 1..Len(argv) :
                 /\ IsDefine(argv[x]) /\ From(argv[x], 3) = name
                 /\ \A y \in (x + 1)..Len(argv) :
                       ~(IsDefine(argv[y]) /\ From(argv[y], 3) = name)
    IN  parseValue(argv[k + 1], argv[k + 2])

\* The table of an --add-config file.
FileTable(file) == loadConfig(files, file, {}).table

\* The files of a sequence of files that define name, in the order of the sequence.
Defining(fileSeq, name) == SelectSeq(fileSeq, LAMBDA f : name \in DOMAIN FileTable(f))

\* A step is a call of initConfig(argc, argv, ROOT) that returned.
InitConfigReturned == InitConfigArgs(args', ROOT) /\ exited' = "no"

\* A step is a get() that built the store.
StoreBuilt == m_instance = NULL /\ m_instance' # NULL /\ exited' = "no"

\* C2: in the store get() builds, a name defined both in the primary file and in
\* userDefs has the value userDefs gives it, which is what the getter of its kind
\* returns; and after initConfig a name a -D triple of argv defines is bound in
\* userDefs to the value of the triple, whatever --add-config files argv names
\* before or after the triple.
C2_OverridesWin ==
    [][ /\ StoreBuilt =>
              \A n \in DOMAIN loaded'.table \cap DOMAIN userDefs :
                 /\ heap'[m_instance'].config[n] = userDefs[n]
                 /\ \A op \in GetterOps :
                       KindOf(op) = userDefs[n].type =>
                          LET r == Getter(op, heap'[m_instance'].config, n)
                          IN  r.status = "ok" /\ r.value = userDefs[n]
        /\ InitConfigReturned =>
              \A n \in DefinedNames(args') :
                 n \in DOMAIN userDefs' /\ userDefs'[n] = DefinedValue(args', n)
      ]_vars

\* -D A comes before or after an --add-config file that defines A, the primary
\* file defines A as well, and the store built holds the value of the triple.
C2_Witness ==
    /\ exited = "no" /\ m_instance # NULL
    /\ \E f \in {INC_B, INC_C} :
          args \in { <<PROG>> \o OptDefine(NA, T_hex, <<"9">>) \o OptAdd(f),
                     <<PROG>> \o OptAdd(f) \o OptDefine(NA, T_hex, <<"9">>) }
    /\ NA \in DOMAIN loaded.table /\ loaded.table[NA].intVal = 2
    /\ NA \in DOMAIN userDefs /\ userDefs[NA].intVal = 9
    /\ Store[NA].intVal = 9
    /\ NB \in DOMAIN Store

\* C6 as stated: after initConfig, a name that userDefs did not hold, that no -D
\* triple of argv defines and that --add-config files of argv define is bound to
\* the value of the file given last in argv among these.
C6_LaterFileWins ==
    [][ InitConfigReturned =>
           \A n \in {NA, NB} :
              LET fs == Defining(AddFiles(args'), n)
              IN  (n \notin DOMAIN userDefs /\ n \notin DefinedNames(args') /\ fs # <<>>) =>
                     userDefs'[n] = FileTable(fs[Len(fs)])[n]
      ]_vars

\* C6 amended: such a name is bound to the value of the file given first in argv
\* among those that define it, and a name userDefs held keeps its value.
C6_EarlierFileWins ==
    [][ InitConfigReturned =>
           \A n \in {NA, NB} :
              LET fs == Defining(AddFiles(args'), n)
              IN  /\ (n \notin DOMAIN userDefs /\ n \notin DefinedNames(args')
                         /\ fs # <<>>) =>
                        userDefs'[n] = FileTable(fs[1])[n]
                  /\ (n \in DOMAIN userDefs /\ n \notin DefinedNames(args')) =>
                        userDefs'[n] = userDefs[n]
      ]_vars

\* argv names d/b and then d/c, which both define A, with different values, and
\* userDefs holds the value of d/b.
C6_Witness ==
    /\ exited = "no"
    /\ args = <<PROG>> \o OptAdd(INC_B) \o OptAdd(INC_C)
    /\ FileTable(INC_B)[NA].intVal = 3 /\ FileTable(INC_C)[NA].intVal = 4
    /\ userDefs[NA].intVal = 3
    /\ userDefs[NB].intVal = 4

\* ------------------------------------------------------------ the store's life

\* The command lines of the program whose store is rebuilt.
LifeArgvs ==
    { <<PROG>> \o OptUse(ALT) \o OptAdd(INC_B),
      <<PROG>> \o OptDefine(NB, T_int, <<"9">>) }

Init == \E fs \in LifeFileSystems : Start(fs)

Next ==
    \/ \E f \in {ROOT, ALT} : InitConfigFile(f)
    \/ \E argv \in LifeArgvs : InitConfigArgs(argv, ROOT)
    \/ Get
    \/ Refresh
    \/ \E body \in RootBodies : WriteFile(ROOT, body)

Spec == Init /\ [][Next]_vars

\* The table a get() that finds no store builds from the sources as they are.
FreshTable == mergeConfigTables(loadConfig(files, configFile, {}).table, userDefs)

\* C5: while the store exists no step but refresh() replaces it or changes its
\* table, whatever happens to the files, configFile and userDefs, and get() returns
\* it; a get() that finds no store builds one from the files, configFile and
\* userDefs as they are then.
C5_StoreIsCachedUntilRefresh ==
    [][ /\ (m_instance # NULL /\ m_instance' # NULL) =>
              m_instance' = m_instance /\ heap' = heap
        /\ (m_instance # NULL /\ m_instance' = NULL) =>
              /\ m_instance \notin DOMAIN heap'
              /\ UNCHANGED <<files, configFile, userDefs>>
        /\ (m_instance' # NULL /\ exited' = "no") => ret'[Main] = m_instance'
        /\ StoreBuilt =>
              /\ loaded'.file = configFile
              /\ heap'[m_instance'].config = FreshTable
      ]_vars

\* The store get() returned is the one built from d/m although d/m has been
\* rewritten, configFile names d/n and userDefs has got an entry since.
C5_Witness ==
    /\ exited = "no" /\ m_instance # NULL /\ ret[Main] = m_instance
    /\ loaded.file = ROOT /\ configFile = ALT
    /\ loadConfig(files, ROOT, {}).table # loaded.table
    /\ NB \in DOMAIN userDefs /\ NB \notin DOMAIN loaded.table
    /\ Store = loaded.table
    /\ Store # FreshTable

\* ------------------------------------------------------------ get() in threads

\* Each thread calls get() again and again; pc[t] is the line of get() thread t
\* is about to run: "idle" before the test of line 231, "new" at line 232,
\* "load" at line 233, "return" at line 235.

\* The test of line 231 were it to wait while another thread is inside the if.
Test_locked(t) ==
    /\ exited = "no"
    /\ pc[t] = "idle"
    /\ \A u \in Threads \ {t} : pc[u] \notin {"new", "load"}
    /\ pc' = [pc EXCEPT ![t] = IF m_instance = NULL THEN "new" ELSE "return"]
    /\ UNCHANGED <<files, configFile, userDefs, m_instance, heap, exited, last,
                   loaded, args, probe, ret>>

\* `if (m_instance == NULL)` (configuration.cpp:231).
Test(t) ==
    /\ exited = "no"
    /\ pc[t] = "idle"
    /\ pc' = [pc EXCEPT ![t] = IF m_instance = NULL THEN "new" ELSE "return"]
    /\ UNCHANGED <<files, configFile, userDefs, m_instance, heap, exited, last,
                   loaded, args, probe, ret>>

\* `m_instance = new Configuration();` (configuration.cpp:232): the new object
\* has an empty table.
New(t) ==
    /\ exited = "no"
    /\ pc[t] = "new"
    /\ \E a \in Addrs \ DOMAIN heap :
          /\ heap' = Bind(heap, a, [config |-> EmptyTable, populated |-> FALSE])
          /\ m_instance' = a
    /\ pc' = [pc EXCEPT ![t] = "load"]
    /\ UNCHANGED <<files, configFile, userDefs, exited, last, loaded, args, probe,
                   ret>>

\* `m_instance->config = mergeConfigTables(loadConfig(configFile), userDefs);`
\* (configuration.cpp:233), on the object m_instance points to by now.
Load(t) ==
    /\ exited = "no"
    /\ pc[t] = "load"
    /\ \E r \in {loadConfig(files, configFile, {})} :
          /\ loaded' = r
          /\ IF r.status = "ok"
             THEN /\ heap' = [heap EXCEPT ![m_instance] =
                                  [config |-> BuildConfig(r.table),
                                   populated |-> TRUE]]
                  /\ pc' = [pc EXCEPT ![t] = "return"]
                  /\ UNCHANGED exited
             ELSE exited' = r.status /\ UNCHANGED <<heap, pc>>
    /\ UNCHANGED <<files, configFile, userDefs, m_instance, last, args, probe, ret>>

\* `return m_instance;` (configuration.cpp:235).
Return(t) ==
    /\ exited = "no"
    /\ pc[t] = "return"
    /\ ret' = [ret EXCEPT ![t] = m_instance]
    /\ pc' = [pc EXCEPT ![t] = "idle"]
    /\ UNCHANGED <<files, configFile, userDefs, m_instance, heap, exited, last,
                   loaded, args, probe>>

\* The program after initConfig(filename), as its threads start.
InitConc ==
    \E fs \in LifeFileSystems, f \in {ROOT, ALT} :
       /\ probe = NoProbe
       /\ files = fs
       /\ configFile = f
       /\ userDefs = EmptyTable
       /\ m_instance = NULL
       /\ heap = <<>>
       /\ exited = "no"
       /\ last = NoCall
       /\ loaded = NoLoad
       /\ args = <<>>
       /\ pc = [t \in Threads |-> "idle"]
       /\ ret = [t \in Threads |-> NULL]

NextConc == \E t \in Threads : Test(t) \/ New(t) \/ Load(t) \/ Return(t)

SpecConc == InitConc /\ [][NextConc]_vars

\* C9: nothing in get() makes a thread wait for another: a thread about to test
\* m_instance can do so, and one that found it NULL can construct a store,
\* whichever threads are inside the if; every thread inside the if found
\* m_instance NULL, so as many stores are constructed as threads got inside; and
\* m_instance points to a store with no table yet only while the thread that
\* constructed it, or another, has line 233 still to run.
C9_GetIsNotSynchronized ==
    /\ \A t \in Threads : pc[t] = "idle" => ENABLED Test(t)
    /\ \A t \in Threads : pc[t] = "new" => ENABLED New(t)
    /\ \A t \in Threads : pc[t] = "return" => ENABLED Return(t)
    /\ Cardinality(DOMAIN heap) <= NumThreads
    /\ Cardinality(DOMAIN heap) >= Cardinality({t \in Threads : pc[t] = "load"})
    /\ (m_instance # NULL /\ ~heap[m_instance].populated) =>
          \E u \in Threads : pc[u] = "load"

\* Two threads found m_instance NULL and each constructed a store, and one of
\* them has returned from get() with the store of the other, which has not run
\* line 233 on it yet.
C9_Witness ==
    \E t \in Threads, u \in Threads :
       /\ t # u
       /\ Cardinality(DOMAIN heap) = 2
       /\ pc[t] = "idle" /\ pc[u] = "load"
       /\ ret[t] = m_instance /\ m_instance # NULL
       /\ ~heap[m_instance].populated
       /\ \E a \in DOMAIN heap \ {m_instance} : heap[a].populated

====
